---- MODULE Spec2Model ----
(***************************************************************************)
(* A model of src/main.py: rss_parser and the two renderers it dispatches  *)
(* to, get_output (text lines) and get_json_output (a JSON document).      *)
(*                                                                         *)
(* A parsed document is the list of the root's <channel> children.  Every  *)
(* element is a record [tag, text, kids]; text is Python's Element.text,   *)
(* which is None for an element without character data.  An optional       *)
(* value is a tuple: None is <<>> and the value v is <<v>>.                *)
(***************************************************************************)
EXTENDS Integers, Sequences, FiniteSets, TLC

VARIABLES xml, limit, json, pc, ci, output, joutput, result, exc

vars == <<xml, limit, json, pc, ci, output, joutput, result, exc>>

(***************************************************************************)
(* Bounds of the model.                                                    *)
(***************************************************************************)
MaxHeaders  == 2   \* header elements of the one channel of a HeaderDocs document
MaxItemKids == 2   \* child elements of the one item of an ItemDocs document
MaxItems    == 2   \* items of a channel of a MultiDocs document
MaxChannels == 2   \* channels of a MultiDocs document

(***************************************************************************)
(* Python values.                                                          *)
(***************************************************************************)
None == <<>>

Some(v) == <<v>>

\* str(x) as an f-string field formats it: None prints as the word None.
PyStr(t) == IF t = None THEN "None" ELSE t[1]

\* repr(x) of a str (no quote or backslash in it) or of None.
PyRepr(t) == IF t = None THEN "None" ELSE "'" \o t[1] \o "'"

RECURSIVE JoinStrings(_, _)
\* sep.join(strs) for a list of str.
JoinStrings(sep, strs) ==
    IF strs = <<>> THEN ""
    ELSE IF Len(strs) = 1 THEN strs[1]
    ELSE strs[1] \o sep \o JoinStrings(sep, Tail(strs))

\* str(list): "[" + ", ".join(repr(x) for x in list) + "]".
PyListStr(ts) == "[" \o JoinStrings(", ", [i \in 1..Len(ts) |-> PyRepr(ts[i])]) \o "]"

\* ", ".join(categories) raises TypeError when an entry is None.
JoinRaises(ts) == \E i \in 1..Len(ts) : ts[i] = None

\* ", ".join(categories) when every entry is a str.
PyJoin(ts) == JoinStrings(", ", [i \in 1..Len(ts) |-> ts[i][1]])

(***************************************************************************)
(* xml.etree.ElementTree: elements, find and findall.                      *)
(***************************************************************************)
Elem(tag, text) == [tag |-> tag, text |-> text, kids |-> <<>>]

Node(tag, kids) == [tag |-> tag, text |-> None, kids |-> kids]

\* element.findall(tag): the children with that tag, in document order.
findall(element, tag) == SelectSeq(element.kids, LAMBDA k : k.tag = tag)

\* element.find(tag): the first child with that tag, or None.
find(element, tag) ==
    LET found == findall(element, tag)
    IN  IF found = <<>> THEN None ELSE Some(found[1])

\* [category.text for category in element.findall("category")]
CategoryTexts(element) ==
    LET cs == findall(element, "category")
    IN  [i \in 1..Len(cs) |-> cs[i].text]

(***************************************************************************)
(* The two catalogs of rss_parser, as ordered key/label lists (a Python    *)
(* dict iterates in insertion order).                                      *)
(***************************************************************************)
KV(k, v) == [k |-> k, v |-> v]

channel_elements_dict ==
    << KV("title", "Feed"), KV("link", "Link"),
       KV("lastBuildDate", "Last Build Date"), KV("pubDate", "Publish Date"),
       KV("language", "Language"), KV("category", "Categories"),
       KV("managinEditor", "Editor"), KV("description", "Description") >>

item_elements_dict ==
    << KV("title", "Title"), KV("author", "Author"), KV("pubDate", "Published"),
       KV("link", "Link"), KV("category", "Categories"), KV("description", "") >>

\* dict[key]
Lookup(dict, key) == LET i == CHOOSE j \in 1..Len(dict) : dict[j].k = key IN dict[i].v

HasKey(dict, key) == \E j \in 1..Len(dict) : dict[j].k = key

\* dict[key] = value: an existing key keeps its place, a new key goes last.
DictSet(dict, key, value) ==
    IF HasKey(dict, key)
    THEN [j \in 1..Len(dict) |-> IF dict[j].k = key THEN KV(key, value) ELSE dict[j]]
    ELSE Append(dict, KV(key, value))

RECURSIVE DictUpdate(_, _)
\* dict.update(other)
DictUpdate(dict, other) ==
    IF other = <<>> THEN dict
    ELSE DictUpdate(DictSet(dict, other[1].k, other[1].v), Tail(other))

RECURSIVE Flatten(_)
\* The concatenation of a list of lists.
Flatten(ss) == IF ss = <<>> THEN <<>> ELSE ss[1] \o Flatten(Tail(ss))

(***************************************************************************)
(* get_channel_items: the header lines of one channel (text mode).         *)
(***************************************************************************)
\* One pass of the loop over channel_elements_dict.keys(): the lines it appends.
ChannelFieldLines(dict, channel, el) ==
    IF find(channel, el) = None THEN <<>>
    ELSE IF el = "category"
         THEN LET categories == CategoryTexts(channel)
              IN  IF categories # <<>>
                  THEN << Lookup(dict, el) \o ": " \o PyListStr(categories) >>
                  ELSE <<>>
         ELSE << Lookup(dict, el) \o ": " \o PyStr(find(channel, el)[1].text) >>

\* A slip: the header lines follow the document order of the children, not
\* the order of the catalog.
get_channel_items_DocumentOrder(dict, channel) ==
    LET kids == channel.kids
        first(i) == \A j \in 1..(i - 1) : kids[j].tag # kids[i].tag
    IN  Flatten([i \in 1..Len(kids) |->
                    IF HasKey(dict, kids[i].tag) /\ first(i)
                    THEN ChannelFieldLines(dict, channel, kids[i].tag)
                    ELSE <<>>])

get_channel_items(dict, channel) ==
    Flatten([i \in 1..Len(dict) |-> ChannelFieldLines(dict, channel, dict[i].k)])

(***************************************************************************)
(* get_output: one pass of its loop over the channels.                     *)
(***************************************************************************)
RECURSIVE RenderedItems(_, _, _)
\* The items the loop body runs for: the loop breaks once count >= limit.
RenderedItems(items, count, lim) ==
    IF items = <<>> THEN <<>>
    ELSE IF lim # None /\ count >= lim[1] THEN <<>>
    ELSE <<items[1]>> \o RenderedItems(Tail(items), count + 1, lim)

\* One pass of the loop over item_elements_dict.keys() in get_output.
ItemFieldLines(item, el) ==
    IF find(item, el) = None THEN <<>>
    ELSE LET content == find(item, el)[1].text
         IN  IF el = "category"
             THEN LET categories == CategoryTexts(item)
                  IN  IF categories # <<>>
                      THEN << Lookup(channel_elements_dict, el) \o " " \o PyJoin(categories) >>
                      ELSE <<>>
             ELSE IF el = "<description>"
             THEN << "\n" \o PyStr(content) >>
             ELSE << Lookup(item_elements_dict, el) \o ": " \o PyStr(content) >>

\* The join of get_output raises TypeError on a category without text.
ItemRaises(item) == find(item, "category") # None /\ JoinRaises(CategoryTexts(item))

ItemLines(item) ==
    Flatten([i \in 1..Len(item_elements_dict) |->
                ItemFieldLines(item, item_elements_dict[i].k)])

\* output.extend(get_channel_items(channel_elements_dict, channel))
ExtendHeader(out, channel) == out \o get_channel_items(channel_elements_dict, channel)

\* A slip: the marker goes to output[1], the second line, not to output[-1].
AppendMarkerSecond(out) ==
    IF Len(out) >= 2 THEN [out EXCEPT ![2] = @ \o "\n"] ELSE [out EXCEPT ![Len(out)] = @ \o "\n"]

\* output[-1] = output[-1] + "\n"
AppendMarker(out) == [out EXCEPT ![Len(out)] = @ \o "\n"]

\* The exception one pass of the channel loop raises, "" when it raises none.
GetOutputRaises(out, channel, lim) ==
    LET items == RenderedItems(findall(channel, "item"), 0, lim)
    IN  IF ExtendHeader(out, channel) = <<>> THEN "IndexError"
        ELSE IF \E i \in 1..Len(items) : ItemRaises(items[i]) THEN "TypeError"
        ELSE ""

\* The output list after one pass of the channel loop that raises nothing.
GetOutputPass(out, channel, lim) ==
    LET items == RenderedItems(findall(channel, "item"), 0, lim)
    IN  AppendMarker(ExtendHeader(out, channel))
            \o Flatten([i \in 1..Len(items) |-> ItemLines(items[i])])

(***************************************************************************)
(* JSON values: a string or null, a list of them, a list of objects.  An   *)
(* object is an ordered key/value list.                                    *)
(***************************************************************************)
JScalar(t) == [type |-> "scalar", v |-> t]

JList(ts) == [type |-> "list", v |-> ts]

JObjects(ds) == [type |-> "objects", v |-> ds]

(***************************************************************************)
(* get_channel_items_json and get_json_output.                             *)
(***************************************************************************)
RECURSIVE ChannelJsonFrom(_, _, _, _)
\* The loop of get_channel_items_json from the i-th catalog key on.
ChannelJsonFrom(dict, channel, i, res) ==
    IF i > Len(dict) THEN res
    ELSE LET el == dict[i].k
             next == IF find(channel, el) = None THEN res
                     ELSE IF el = "category"
                          THEN LET categories == CategoryTexts(channel)
                               IN  IF categories # <<>>
                                   THEN DictSet(res, Lookup(dict, el), JList(categories))
                                   ELSE res
                          ELSE DictSet(res, el, JScalar(find(channel, el)[1].text))
         IN  ChannelJsonFrom(dict, channel, i + 1, next)

\* A slip: the scalar fields are keyed by the display label, as the text
\* renderer labels them.
get_channel_items_json_Labels(dict, channel) ==
    LET res == ChannelJsonFrom(dict, channel, 1, <<>>)
    IN  [i \in 1..Len(res) |->
            IF res[i].v.type = "scalar" THEN KV(Lookup(dict, res[i].k), res[i].v) ELSE res[i]]

get_channel_items_json(dict, channel) == ChannelJsonFrom(dict, channel, 1, <<>>)

RECURSIVE ItemJsonFrom(_, _, _)
\* The loop over item_elements_dict.keys() in get_json_output.
ItemJsonFrom(item, i, items_dict) ==
    IF i > Len(item_elements_dict) THEN items_dict
    ELSE LET el == item_elements_dict[i].k
             next == IF find(item, el) = None THEN items_dict
                     ELSE IF el = "category"
                          THEN LET categories == CategoryTexts(item)
                               IN  IF categories # <<>>
                                   THEN DictSet(items_dict, Lookup(channel_elements_dict, el),
                                                JList(categories))
                                   ELSE items_dict
                          ELSE DictSet(items_dict, el, JScalar(find(item, el)[1].text))
         IN  ItemJsonFrom(item, i + 1, next)

ItemJson(item) == ItemJsonFrom(item, 1, <<>>)

\* The output dict after one pass of the channel loop of get_json_output.
GetJsonOutputPass(out, channel, lim) ==
    LET items == RenderedItems(findall(channel, "item"), 0, lim)
        items_list == [i \in 1..Len(items) |-> ItemJson(items[i])]
        updated == DictUpdate(out, get_channel_items_json(channel_elements_dict, channel))
    IN  IF items_list # <<>> THEN DictSet(updated, "items", JObjects(items_list))
        ELSE updated

(***************************************************************************)
(* json.dumps(output, indent=2), for strings that need no escaping.        *)
(***************************************************************************)
RECURSIVE Spaces(_)
Spaces(n) == IF n = 0 THEN "" ELSE " " \o Spaces(n - 1)

DumpScalar(t) == IF t = None THEN "null" ELSE "\"" \o t[1] \o "\""

DumpList(ts, ind) ==
    IF ts = <<>> THEN "[]"
    ELSE "[\n"
         \o JoinStrings(",\n", [i \in 1..Len(ts) |-> Spaces(ind + 2) \o DumpScalar(ts[i])])
         \o "\n" \o Spaces(ind) \o "]"

RECURSIVE DumpDict(_, _)
DumpDict(d, ind) ==
    LET DumpValue(val) ==
            IF val.type = "scalar" THEN DumpScalar(val.v)
            ELSE IF val.type = "list" THEN DumpList(val.v, ind + 2)
            ELSE IF val.v = <<>> THEN "[]"
            ELSE "[\n"
                 \o JoinStrings(",\n", [i \in 1..Len(val.v) |->
                        Spaces(ind + 4) \o DumpDict(val.v[i], ind + 4)])
                 \o "\n" \o Spaces(ind + 2) \o "]"
    IN  IF d = <<>> THEN "{}"
        ELSE "{\n"
             \o JoinStrings(",\n", [i \in 1..Len(d) |->
                    Spaces(ind + 2) \o "\"" \o d[i].k \o "\": " \o DumpValue(d[i].v)])
             \o "\n" \o Spaces(ind) \o "}"

json_dumps(d) == DumpDict(d, 0)

(***************************************************************************)
(* The documents rss_parser is run on.                                     *)
(***************************************************************************)
TextValues == {None, Some("a"), Some("b")}

ChannelTags ==
    {"title", "link", "lastBuildDate", "pubDate", "language", "category",
     "managingEditor", "managinEditor", "description"}

ItemTags == {"title", "author", "pubDate", "link", "category", "description"}

HeaderElems == {Elem(t, x) : t \in ChannelTags, x \in TextValues}

ItemElems == {Elem(t, x) : t \in ItemTags, x \in TextValues}

SeqsUpTo(S, n) == UNION {[1..k -> S] : k \in 0..n}

Item(kids) == Node("item", kids)

Channel(kids) == Node("channel", kids)

PlainHeads == { <<>>, <<Elem("title", Some("a"))>> }

MultiHeads ==
    { <<>>, <<Elem("title", Some("a"))>>,
      <<Elem("link", Some("a")), Elem("title", Some("b"))>> }

\* The i-th item of a channel of a MultiDocs document: neighbours differ.
ItemNo(i) ==
    IF i % 2 = 0 THEN Item(<<>>)
    ELSE Item(<<Elem("title", Some(IF i % 4 = 1 THEN "a" ELSE "b"))>>)

\* One channel holding up to MaxHeaders header elements, in any order.
HeaderDocs == { <<Channel(h)>> : h \in SeqsUpTo(HeaderElems, MaxHeaders) }

\* One channel holding a title, a link and one more header element, in any order.
TitleLinkDocs ==
    { <<Channel(<<p[1], p[2], p[3]>>)>> :
        p \in { q \in [1..3 -> HeaderElems] :
                  /\ \E i \in 1..3 : q[i].tag = "title"
                  /\ \E i \in 1..3 : q[i].tag = "link" } }

\* One channel holding one item of up to MaxItemKids child elements.
ItemDocs ==
    { <<Channel(head \o <<Item(k)>>)>> :
        head \in PlainHeads, k \in SeqsUpTo(ItemElems, MaxItemKids) }

PlainChannels ==
    { Channel(head \o [i \in 1..n |-> ItemNo(i)]) : head \in MultiHeads, n \in 0..MaxItems }

\* Up to MaxChannels channels, each of up to MaxItems items.
MultiDocs == SeqsUpTo(PlainChannels, MaxChannels)

\* The document of the docstring of rss_parser.
ExampleDoc ==
    << Channel(<< Elem("title", Some("Some RSS Channel")),
                  Elem("link", Some("https://some.rss.com")),
                  Elem("description", Some("Some RSS Channel")) >>) >>

Docs == HeaderDocs \cup TitleLinkDocs \cup ItemDocs \cup MultiDocs \cup {ExampleDoc}

Limits == {None} \cup {Some(k) : k \in -1..(MaxItems + 1)}

(***************************************************************************)
(* rss_parser as a state machine: a call, then one step per pass of the    *)
(* renderer's loop over the channels, then the return.                     *)
(***************************************************************************)
\* parsed_xml.findall("channel")
channels == xml

Init ==
    /\ xml \in Docs
    /\ limit \in Limits
    /\ json \in BOOLEAN
    /\ pc = "start"
    /\ ci = 1
    /\ output = <<>>
    /\ joutput = <<>>
    /\ result = <<>>
    /\ exc = ""

\* if limit is not None and limit < 0: raise UnhandledException()
RaiseInvalidLimit ==
    /\ pc = "start"
    /\ limit # None /\ limit[1] < 0
    /\ pc' = "error"
    /\ exc' = "UnhandledException"
    /\ UNCHANGED <<xml, limit, json, ci, output, joutput, result>>

\* The catalogs are built, the document is parsed and a renderer is entered.
Dispatch ==
    /\ pc = "start"
    /\ ~(limit # None /\ limit[1] < 0)
    /\ pc' = IF json THEN "json" ELSE "text"
    /\ UNCHANGED <<xml, limit, json, ci, output, joutput, result, exc>>

\* One pass of the channel loop of get_output.
GetOutputChannel ==
    /\ pc = "text"
    /\ ci <= Len(channels)
    /\ GetOutputRaises(output, channels[ci], limit) = ""
    /\ output' = GetOutputPass(output, channels[ci], limit)
    /\ ci' = ci + 1
    /\ UNCHANGED <<xml, limit, json, pc, joutput, result, exc>>

\* A pass of the channel loop of get_output that raises: the call fails.
GetOutputChannelRaise ==
    /\ pc = "text"
    /\ ci <= Len(channels)
    /\ GetOutputRaises(output, channels[ci], limit) # ""
    /\ exc' = GetOutputRaises(output, channels[ci], limit)
    /\ pc' = "error"
    /\ UNCHANGED <<xml, limit, json, ci, output, joutput, result>>

\* return output
GetOutputReturn ==
    /\ pc = "text"
    /\ ci > Len(channels)
    /\ result' = output
    /\ pc' = "done"
    /\ UNCHANGED <<xml, limit, json, ci, output, joutput, exc>>

\* One pass of the channel loop of get_json_output.
GetJsonOutputChannel ==
    /\ pc = "json"
    /\ ci <= Len(channels)
    /\ joutput' = GetJsonOutputPass(joutput, channels[ci], limit)
    /\ ci' = ci + 1
    /\ UNCHANGED <<xml, limit, json, pc, output, result, exc>>

\* json_module.dumps(output, indent=2), appended to the list rss_parser returns.
GetJsonOutputReturn ==
    /\ pc = "json"
    /\ ci > Len(channels)
    /\ result' = <<json_dumps(joutput)>>
    /\ pc' = "done"
    /\ UNCHANGED <<xml, limit, json, ci, output, joutput, exc>>

Next ==
    \/ RaiseInvalidLimit
    \/ Dispatch
    \/ GetOutputChannel
    \/ GetOutputChannelRaise
    \/ GetOutputReturn
    \/ GetJsonOutputChannel
    \/ GetJsonOutputReturn

Spec == Init /\ [][Next]_vars

(***************************************************************************)
(* Vocabulary of the properties.                                           *)
(***************************************************************************)
ValidLimit == limit = None \/ limit[1] >= 0

TextDone == pc = "done" /\ ~json

JsonDone == pc = "done" /\ json

\* The state right after the renderer's pass over the first channel.
AfterFirstChannel == pc \in {"text", "json", "done"} /\ ci = 2 /\ Len(channels) >= 1

HasPrefix(s, p) == Len(s) >= Len(p) /\ SubSeq(s, 1, Len(p)) = p

EndsWithMarker(s) == Len(s) >= 1 /\ SubSeq(s, Len(s), Len(s)) = "\n"

StripMarker(s) == IF EndsWithMarker(s) THEN SubSeq(s, 1, Len(s) - 1) ELSE s

Present(element, tag) == find(element, tag) # None

\* element.find(tag).text of a present child.
TextOf(element, tag) == find(element, tag)[1].text

\* The catalog keys that come after link in the channel catalog.
KeysAfterLink == {"lastBuildDate", "pubDate", "language", "category", "managinEditor", "description"}

\* The text the specification gives an element: the empty string when it has none.
SpecText(t) == IF t = None THEN "" ELSE t[1]

(***************************************************************************)
(* C1.  The example of the docstring.                                      *)
(***************************************************************************)
ExampleCall == xml = ExampleDoc /\ limit = None /\ ~json

FirstChannelHasTitleAndLink ==
    /\ Len(channels) >= 1
    /\ Present(channels[1], "title")
    /\ Present(channels[1], "link")

RECURSIVE Markers(_)
\* n blank-line markers.
Markers(n) == IF n = 0 THEN "" ELSE "\n" \o Markers(n - 1)

Keys(d) == [i \in 1..Len(d) |-> d[i].k]

\* The key a catalog element is stored under when the raw element name is
\* used for scalar fields and the label for the category list.
RawKey(el) == IF el = "category" THEN "Categories" ELSE el

\* The catalog keys of dict that the element has a child for, in catalog order.
PresentKeys(dict, element) == SelectSeq(Keys(dict), LAMBDA el : Present(element, el))

\* The value a record holds for a present catalog element.
FieldValue(element, el) ==
    IF el = "category" THEN JList(CategoryTexts(element)) ELSE JScalar(TextOf(element, el))

\* The first min(limit, n) items of a channel, all n when no limit is given.
LimitedItems(c) ==
    LET items == findall(c, "item")
    IN  IF limit = None \/ limit[1] >= Len(items) THEN items
        ELSE SubSeq(items, 1, limit[1])

\* The record holds exactly the present catalog elements of the element, in
\* catalog order, under RawKey, with the element's own values.
RawKeyed(record, dict, element) ==
    LET els == PresentKeys(dict, element)
    IN  /\ Keys(record) = [i \in 1..Len(els) |-> RawKey(els[i])]
        /\ \A i \in 1..Len(els) : record[i].v = FieldValue(element, els[i])

\* The channel's scalar elements with a display label that differs from the name.
LabelledScalars == {"title", "link", "lastBuildDate", "pubDate", "language", "description"}

\* C6 as stated: a channel's scalar fields appear at top level under their
\* display label ("Feed" for title, "Publish Date" for pubDate).
C6_ChannelKeyedByLabel ==
    (json /\ pc \in {"json", "done"} /\ ci > 1) =>
        \A el \in LabelledScalars :
            Present(channels[ci - 1], el) =>
                /\ HasKey(joutput, Lookup(channel_elements_dict, el))
                /\ Lookup(joutput, Lookup(channel_elements_dict, el))
                       = JScalar(TextOf(channels[ci - 1], el))

\* C6 amended: there is no asymmetry.  The channel and every item object key
\* their present scalar fields by the raw element name and their category list
\* by the label "Categories".  After the pass over a channel every key it
\* contributes holds that channel's value; the keys of the first channel are
\* in catalog order, followed by "items" when an item is rendered, and the keys
\* of each item object are in item-catalog order.
C6_BothKeyedByElementName ==
    (json /\ pc \in {"json", "done"} /\ ci > 1) =>
        LET c == channels[ci - 1]
            items == LimitedItems(c)
            els == PresentKeys(channel_elements_dict, c)
        IN  /\ \A i \in 1..Len(els) :
                  /\ HasKey(joutput, RawKey(els[i]))
                  /\ Lookup(joutput, RawKey(els[i])) = FieldValue(c, els[i])
            /\ ci = 2 =>
                  /\ Len(joutput) = Len(els) + (IF items = <<>> THEN 0 ELSE 1)
                  /\ RawKeyed(SubSeq(joutput, 1, Len(els)), channel_elements_dict, c)
            /\ items # <<>> =>
                  /\ joutput[Len(joutput)].k = "items" \/ ci > 2
                  /\ HasKey(joutput, "items")
                  /\ LET objects == Lookup(joutput, "items").v
                     IN  /\ Len(objects) = Len(items)
                         /\ \A i \in 1..Len(items) :
                               RawKeyed(objects[i], item_elements_dict, items[i])

\* A returned JSON call on one channel with a title and one item holding a
\* category and a title: the channel keyed "title", the item "title", "Categories".
C6_Witness ==
    /\ JsonDone /\ Len(channels) = 1
    /\ Keys(joutput) = <<"title", "items">>
    /\ Len(Lookup(joutput, "items").v) = 1
    /\ Keys(Lookup(joutput, "items").v[1]) = <<"title", "Categories">>

(***************************************************************************)
(* The text output the specification describes, used by C2, C3, C7, C10.   *)
(***************************************************************************)
HeaderLines(c) == get_channel_items(channel_elements_dict, c)

\* The header lines of a channel with the marker on the last of them.
HeaderBlock(c) == IF HeaderLines(c) = <<>> THEN <<>> ELSE AppendMarker(HeaderLines(c))

\* The lines of the first min(limit, n) items of a channel.
LimitedItemLines(c) ==
    Flatten([j \in 1..Len(LimitedItems(c)) |-> ItemLines(LimitedItems(c)[j])])

(***************************************************************************)
(* C2.  The limit.                                                         *)
(***************************************************************************)
\* C2: a negative limit fails with the invalid-limit error and renders
\* nothing; otherwise, in both modes and for every document, the call
\* completes and each channel renders exactly its first min(limit, n) items
\* (all n without a limit) in document order, the JSON "items" array having
\* that length and being absent when no item is rendered.
C2_LimitSemantics ==
    /\ ~ValidLimit =>
          /\ pc \in {"start", "error"}
          /\ pc = "error" => exc = "UnhandledException"
          /\ output = <<>> /\ joutput = <<>> /\ result = <<>>
    /\ ValidLimit =>
          /\ pc # "error"
          /\ TextDone =>
                result = Flatten([i \in 1..Len(channels) |->
                            HeaderBlock(channels[i]) \o LimitedItemLines(channels[i])])
          /\ (json /\ pc \in {"json", "done"} /\ ci > 1) =>
                LET items == LimitedItems(channels[ci - 1])
                IN  /\ (items = <<>> /\ ci = 2) => ~HasKey(joutput, "items")
                    /\ items # <<>> =>
                          /\ HasKey(joutput, "items")
                          /\ Lookup(joutput, "items").v
                                = [j \in 1..Len(items) |-> ItemJson(items[j])]

(***************************************************************************)
(* C3.  Categories.                                                        *)
(***************************************************************************)
\* "Categories v1, v2, ..., vN"
SpecCategoryLine(element) == "Categories " \o PyJoin(CategoryTexts(element))

AllCategoriesHaveText(c) ==
    /\ ~JoinRaises(CategoryTexts(c))
    /\ \A i \in 1..Len(LimitedItems(c)) : ~JoinRaises(CategoryTexts(LimitedItems(c)[i]))

\* The lines of the output that start with the label Categories, markers removed.
CategoryLinesOf(out) ==
    LET ls == SelectSeq(out, LAMBDA l : HasPrefix(l, "Categories"))
    IN  [i \in 1..Len(ls) |-> StripMarker(ls[i])]

\* C3 (categories that have text): after the pass over the first channel,
\* the text output holds one line "Categories v1, ..., vN" for the channel when
\* it has N >= 1 categories and one for each rendered item that has some, and
\* no other category line; the JSON output holds the key "Categories" exactly
\* when N >= 1, with the list of the N values.
C3_CategoryRendering ==
    (AfterFirstChannel /\ AllCategoriesHaveText(channels[1])) =>
        LET c == channels[1]
            withCats == SelectSeq(LimitedItems(c), LAMBDA it : Present(it, "category"))
        IN  /\ ~json =>
                  CategoryLinesOf(output)
                      = (IF Present(c, "category") THEN <<SpecCategoryLine(c)>> ELSE <<>>)
                        \o [i \in 1..Len(withCats) |-> SpecCategoryLine(withCats[i])]
            /\ json =>
                  /\ HasKey(joutput, "Categories") <=> Present(c, "category")
                  /\ Present(c, "category") =>
                        Lookup(joutput, "Categories") = JList(CategoryTexts(c))

(***************************************************************************)
(* C4.  One entry per present catalog element.                             *)
(***************************************************************************)
\* The channel catalog of the specification.
SpecChannelCatalog ==
    << KV("title", "Feed"), KV("link", "Link"),
       KV("lastBuildDate", "Last Build Date"), KV("pubDate", "Publish Date"),
       KV("language", "Language"), KV("category", "Categories"),
       KV("managingEditor", "Editor"), KV("description", "Description") >>

LinesWithPrefix(out, p) == {i \in 1..Len(out) : HasPrefix(out[i], p)}

\* C4 (channels of catalog elements only, without items): after the pass
\* over the first channel, each of the eight catalog keys has exactly one line
\* under its label in text mode, and a key in JSON mode, exactly when the
\* channel has a child with that tag.
C4_EntryIffPresent ==
    (AfterFirstChannel /\ findall(channels[1], "item") = <<>>
        /\ ~Present(channels[1], "managinEditor")) =>
        \A i \in 1..Len(SpecChannelCatalog) :
            LET el == SpecChannelCatalog[i].k
                label == SpecChannelCatalog[i].v
            IN  /\ ~json =>
                      Cardinality(LinesWithPrefix(output, label))
                          = (IF Present(channels[1], el) THEN 1 ELSE 0)
                /\ json =>
                      (HasKey(joutput, el) \/ HasKey(joutput, label))
                          <=> Present(channels[1], el)

(***************************************************************************)
(* C7.  Several channels.                                                  *)
(***************************************************************************)
\* The lines a channel yields when it is rendered alone, none when that fails.
AloneBlock(c) ==
    IF GetOutputRaises(<<>>, c, limit) = "" THEN GetOutputPass(<<>>, c, limit) ELSE <<>>

\* The object a channel yields when it is rendered alone.
AloneObject(c) == GetJsonOutputPass(<<>>, c, limit)

\* The last channel whose object holds the key.
LastWith(key) ==
    CHOOSE i \in 1..Len(channels) :
        /\ HasKey(AloneObject(channels[i]), key)
        /\ \A j \in (i + 1)..Len(channels) : ~HasKey(AloneObject(channels[j]), key)

\* C7: the returned text lines are the concatenation, in document order,
\* of the lines each channel yields alone; the returned JSON object holds each
\* key some channel produces, with the value of the last channel producing it.
C7_ChannelBlocks ==
    /\ TextDone => result = Flatten([i \in 1..Len(channels) |-> AloneBlock(channels[i])])
    /\ JsonDone =>
          /\ \A i \in 1..Len(channels) :
                \A j \in 1..Len(AloneObject(channels[i])) :
                    HasKey(joutput, AloneObject(channels[i])[j].k)
          /\ \A j \in 1..Len(joutput) :
                /\ \E i \in 1..Len(channels) : HasKey(AloneObject(channels[i]), joutput[j].k)
                /\ joutput[j].v
                      = Lookup(AloneObject(channels[LastWith(joutput[j].k)]), joutput[j].k)

(***************************************************************************)
(* C8.  The two renderers convey the same information.                     *)
(***************************************************************************)
\* The catalog elements a one-channel text output shows a header line for.
TextShows(out) ==
    {i \in 1..Len(channel_elements_dict) :
        LinesWithPrefix(out, channel_elements_dict[i].v) # {}}

\* The catalog elements a JSON object holds a key for.
JsonShows(obj) ==
    {i \in 1..Len(channel_elements_dict) :
        HasKey(obj, RawKey(channel_elements_dict[i].k))}

\* C8: for a valid limit the text renderer completes, as the JSON renderer
\* does on every document; every item the JSON renderer gives a record for
\* yields at least one text line; and the text output of a channel without
\* items shows a header line for exactly the elements the JSON object of the
\* same channel holds a key for.
C8_RenderersEquivalent ==
    (~json /\ ValidLimit) =>
        /\ pc # "error"
        /\ TextDone =>
              /\ \A i \in 1..Len(channels) :
                    \A j \in 1..Len(LimitedItems(channels[i])) :
                        ItemLines(LimitedItems(channels[i])[j]) # <<>>
              /\ (Len(channels) = 1 /\ findall(channels[1], "item") = <<>>) =>
                    TextShows(result) = JsonShows(AloneObject(channels[1]))

(***************************************************************************)
(* C9.  Elements without text.                                             *)
(***************************************************************************)
\* No value of the object, and no entry of a list in it, is null.
NoNull(obj) ==
    \A j \in 1..Len(obj) :
        /\ obj[j].v.type = "scalar" => obj[j].v.v # None
        /\ obj[j].v.type = "list" => \A n \in 1..Len(obj[j].v.v) : obj[j].v.v[n] # None

\* C9: rendering never fails on an element without text; after the pass
\* over the first channel the JSON output holds no null, at top level or in an
\* item object, and holds "" for each present scalar element without text; the
\* text output of a channel without items holds the line "{label}: " for each.
C9_EmptyTextIsEmptyString ==
    /\ exc # "TypeError"
    /\ (json /\ AfterFirstChannel) =>
          /\ NoNull(joutput)
          /\ HasKey(joutput, "items") =>
                \A j \in 1..Len(Lookup(joutput, "items").v) :
                    NoNull(Lookup(joutput, "items").v[j])
          /\ \A i \in 1..Len(channel_elements_dict) :
                LET el == channel_elements_dict[i].k
                IN  (el # "category" /\ Present(channels[1], el)
                        /\ TextOf(channels[1], el) = None) =>
                        Lookup(joutput, el) = JScalar(Some(""))
    /\ (~json /\ AfterFirstChannel /\ findall(channels[1], "item") = <<>>) =>
          \A i \in 1..Len(channel_elements_dict) :
              LET el == channel_elements_dict[i].k
              IN  (el # "category" /\ Present(channels[1], el)
                      /\ TextOf(channels[1], el) = None) =>
                      \E n \in 1..Len(output) :
                          StripMarker(output[n]) = channel_elements_dict[i].v \o ": "

(***************************************************************************)
(* C10.  The blank-line marker of get_output.                              *)
(***************************************************************************)
\* The lines the first k channels have put into the output.
RECURSIVE LinesBefore(_)
LinesBefore(k) ==
    IF k = 0 THEN 0
    ELSE LinesBefore(k - 1) + Len(HeaderLines(channels[k]))
             + Len(LimitedItemLines(channels[k]))

\* The places of the last header line of each channel rendered so far.
LastHeaderPlaces ==
    {LinesBefore(k - 1) + Len(HeaderLines(channels[k])) :
        k \in {n \in 1..(ci - 1) : HeaderLines(channels[n]) # <<>>}}

\* C10: get_output raises no IndexError, on a channel without header
\* lines either; and at every point of its loop the lines ending in the marker
\* are exactly the last header lines of the channels rendered so far, each
\* carrying one marker.
C10_MarkerOnOwnHeader ==
    ~json =>
        /\ exc # "IndexError"
        /\ pc \in {"text", "done"} =>
              /\ {i \in 1..Len(output) : EndsWithMarker(output[i])} = LastHeaderPlaces
              /\ \A i \in 1..Len(output) : ~EndsWithMarker(StripMarker(output[i]))

====
